---- MODULE Spec2Model ----
(***************************************************************************)
(* The chat-stream hook useChatStream (frontend/src/hooks/useChatStream.ts) *)
(* together with the pages that call it.  Every await of the hook is a      *)
(* step boundary; the synchronous code between two awaits is one action.    *)
(* React state setters are applied in the order they are queued, so each    *)
(* action applies its setters at once.  Timestamps are left out: no         *)
(* property below reads them.                                               *)
(*                                                                         *)
(* The second part is the upload tracker of the page AdaptiveKBManagement   *)
(* (frontend/src/pages/Login.tsx): handleFileUpload, the handlers of the    *)
(* EventSource it opens and the timer it arms.  Each handler run is one     *)
(* action.                                                                  *)
(***************************************************************************)
EXTENDS Integers, Sequences, FiniteSets, Bags, TLC

\* ---------------------------------------------------------------- bounds
MaxCalls == 2     \* sendMessage calls started in one behaviour
MaxFrames == 3    \* lines delivered over all chat channels in one behaviour
MaxChunk == 2     \* lines in one read chunk
MaxIds == 1       \* session ids generated after the page was mounted
MaxLoads == 2     \* history loads started in one behaviour
MaxUploads == 2   \* uploads started in one behaviour
MaxEvents == 3    \* messages delivered over all progress channels in one behaviour
MaxSent == 2      \* token frames the backend writes to one response body

Calls == 1..MaxCalls

\* ---------------------------------------------------------------- pages
CAG == "ContextAwareGeneration"
QA == "QAWithVerification"
Pages == {CAG, QA}

RAGModes == {"fast-rag", "agentic-rag"}
QAMode == "qa-verification"
Modes == RAGModes \cup {QAMode}

\* Session ids.  NoId is the empty string '' / a missing storage entry (both
\* falsy); an id left in storage by an earlier visit is StoredId(m); the k-th
\* id generated in this visit is NewId(k).
NoId == "none"
StoredId(m) == "old_" \o m
NewId(k) == "session_" \o ToString(k)

\* ---------------------------------------------------------------- turns
User == "user"
Assistant == "assistant"
\* A slot of the array that holds no element (a[i] === undefined).
Hole == [role |-> "hole", content |-> "", by |-> 0]
\* by: the sendMessage call that wrote the turn (0: restored from history).
TurnOf(r, text, c) == [role |-> r, content |-> text, by |-> c]

Max(a, b) == IF a >= b THEN a ELSE b

\* newMessages[i] = m on a copy of msgs, i counted from 0 as in the source:
\* writing past the end leaves holes between the old end and i.
SetAt(msgs, i, m) ==
  [k \in 1..Max(Len(msgs), i + 1) |->
     IF k = i + 1 THEN m ELSE IF k <= Len(msgs) THEN msgs[k] ELSE Hole]

\* ---------------------------------------------------------------- lines
\* One line of a read chunk.  data: the line starts with 'data: '; json: the
\* rest of the line parses as JSON.  An optional field of the parsed object is
\* <<>> when absent and <<v>> when present.
Absent == <<>>
Some(v) == <<v>>
\* if (data.token), if (data.error): present and not the empty string.
Truthy(f) == f # Absent /\ f[1] # ""

BlankLine == [data |-> FALSE, json |-> FALSE, error |-> Absent, token |-> Absent,
              type |-> "", citations |-> Absent, rewrites |-> Absent,
              usage |-> Absent, processing |-> Absent, done |-> FALSE]
BadLine == [BlankLine EXCEPT !.data = TRUE]
Frame == [BlankLine EXCEPT !.data = TRUE, !.json = TRUE]
TokenLine(p) == [Frame EXCEPT !.token = Some(p)]
ErrorLine(e) == [Frame EXCEPT !.error = Some(e)]
DoneLine == [Frame EXCEPT !.done = TRUE]
CitationsLine(v) == [Frame EXCEPT !.type = "citations", !.citations = Some(v)]
RewritesLine(v) == [Frame EXCEPT !.type = "query_rewrites", !.rewrites = Some(v)]
UsageLine(v) == [Frame EXCEPT !.type = "token_usage", !.usage = Some(v)]
MetadataLine(v) == [Frame EXCEPT !.type = "metadata", !.processing = Some(v)]

Usage1 == [prompt_tokens |-> 1, completion_tokens |-> 2, total_tokens |-> 3]
Meta1 == [processing_time_ms |-> 5, retrieval_method |-> "hybrid", success |-> TRUE]

Usage2 == [prompt_tokens |-> 2, completion_tokens |-> 2, total_tokens |-> 4]
Meta2 == [processing_time_ms |-> 9, retrieval_method |-> "vector", success |-> FALSE]

TokenLines == {TokenLine("a"), TokenLine("b"), TokenLine("")}
TypedLines == {CitationsLine(<<"c1">>), RewritesLine(<<"r1">>),
               UsageLine(Usage1), MetadataLine(Meta1)}
Lines == TokenLines \cup TypedLines
           \cup {DoneLine, ErrorLine("boom"), BadLine, BlankLine,
                 [TokenLine("b") EXCEPT !.done = TRUE]}

Chunks == UNION {[1..n -> Lines] : n \in 1..MaxChunk}

\* Frames that carry a type and its payload and nothing else, two payloads for
\* each type.
TypedFrames ==
  TypedLines \cup {CitationsLine(<<"c2", "c3">>), RewritesLine(<<"r2">>),
                   UsageLine(Usage2), MetadataLine(Meta2)}

\* ---------------------------------------------------------------- state
VARIABLES
  page,               \* the page component that hosts the hook
  mode,               \* the hook's mode argument
  sessionId,          \* useState sessionId
  cbSessionId,        \* sessionId as captured by the memoized sendMessage
  localStorage,       \* chat_session_<mode> entries
  nextId,             \* ids generated so far
  loads,              \* bag of the session ids whose history request is pending
  histCount,          \* history loads started and failed so far, id last restored
  messages, citations, queryRewrites, tokenUsage, processingMetadata,
  isLoading, isStreaming,
  call                \* per sendMessage call: its position and locals

VARIABLES
  isUploading,        \* useState isUploading
  uploadStatus,       \* useState uploadStatus
  processingSteps,    \* useState processingSteps
  processingResult,   \* useState processingResult: <<>> is null
  fileInput,          \* fileInputRef.current.value
  useProgressTracking, \* useState useProgressTracking
  job                 \* per tracked upload: its position, EventSource and timer

\* The state of the chat hook and its page.
chat == <<page, mode, sessionId, cbSessionId, localStorage, nextId, loads, histCount,
          messages, citations, queryRewrites, tokenUsage, processingMetadata,
          isLoading, isStreaming, call>>

\* The state of the upload tracker.
tracker == <<isUploading, uploadStatus, processingSteps, processingResult,
             fileInput, useProgressTracking, job>>

vars == <<page, mode, sessionId, cbSessionId, localStorage, nextId, loads, histCount,
          messages, citations, queryRewrites, tokenUsage, processingMetadata,
          isLoading, isStreaming, call, tracker>>

session == <<mode, sessionId, cbSessionId, localStorage, nextId, loads, histCount>>
turnState == <<messages, citations, queryRewrites, tokenUsage, processingMetadata>>

\* tokenUsage and processingMetadata are undefined (<<>>) or one value (<<v>>).
Undefined == <<>>

\* A call that was not started yet.  pc: idle, auth (awaiting getAccessToken),
\* fetch (awaiting the response), reading (awaiting reader.read()), returned.
\* History variables: nrecv, the number of lines delivered so far; toks, the
\* payloads of the token frames among them; shape, whether the lines were
\* token frames only ("tokens"), token frames and then one done frame
\* ("tokensDone"), or anything else ("other"); doneSeen and errSeen, whether
\* the done flag and the error field were handled; how, the way the call
\* ended; typed, the types whose payload the call stored; reset, whether the
\* turn list was emptied or replaced by another operation since the call
\* started; skip, how far the lines so far match token frames, one line that
\* is no JSON, one token frame ("token", "tokenBad", "tokenBadToken").
IdleCall == [pc |-> "idle", content |-> "", closureMode |-> "", closureSid |-> NoId,
             request |-> Absent, activeSid |-> NoId,
             assistantMessage |-> "", messageIndex |-> -1,
             nrecv |-> 0, toks |-> <<>>, shape |-> "tokens",
             doneSeen |-> FALSE, errSeen |-> FALSE,
             how |-> "", typed |-> {}, reset |-> FALSE, skip |-> "start",
             wire |-> <<>>, sent |-> <<>>]

InFlight(c) == call[c].pc \in {"auth", "fetch", "reading"}
Started(c) == call[c].pc # "idle"

\* ---------------------------------------------------------------- session
\* const generateSessionId: the k-th id generated after the mount is a fresh one.
generateSessionId(k) == NewId(k)

\* History payloads the backend may answer with (data.messages); a turn of the
\* history carries optional citations, token_usage and processing_metadata.
HistTurn(r, text) == [role |-> r, content |-> text, citations |-> Absent,
                      token_usage |-> Absent, processing_metadata |-> Absent]
Usage0 == [prompt_tokens |-> 4, completion_tokens |-> 4, total_tokens |-> 8]
History1 == <<HistTurn(User, "old q"),
              [HistTurn(Assistant, "old a") EXCEPT !.citations = Some(<<"c0">>),
                                                   !.token_usage = Some(Usage0)]>>
Histories == {<<>>, History1}

\* sessionMessages.filter(msg => msg.role === 'assistant').pop()
RECURSIVE LastAssistant(_)
LastAssistant(h) ==
  IF h = <<>> THEN Absent
  ELSE IF h[Len(h)].role = Assistant THEN Some(h[Len(h)])
  ELSE LastAssistant(SubSeq(h, 1, Len(h) - 1))

\* The turn list was emptied or replaced: noted in every started call.
NoteReset == [c \in Calls |-> IF call[c].pc # "idle"
                                THEN [call[c] EXCEPT !.reset = TRUE] ELSE call[c]]

\* Mutant of ActivateEffect: a new id is generated whether one is stored or not.
ActivateEffectRegenerates(m) ==
  /\ nextId < MaxIds
  /\ sessionId' = generateSessionId(nextId + 1)
  /\ localStorage' = [localStorage EXCEPT ![m] = generateSessionId(nextId + 1)]
  /\ nextId' = nextId + 1
  /\ UNCHANGED <<loads, histCount>>

\* The body of the useEffect on [mode]: reuse the stored id and load its
\* history, or generate and persist a new id.
ActivateEffect(m) ==
  IF localStorage[m] # NoId
  THEN /\ histCount.started < MaxLoads
       /\ sessionId' = localStorage[m]
       /\ loads' = loads (+) SetToBag({localStorage[m]})
       /\ histCount' = [histCount EXCEPT !.started = @ + 1]
       /\ UNCHANGED <<localStorage, nextId>>
  ELSE /\ nextId < MaxIds
       /\ sessionId' = generateSessionId(nextId + 1)
       /\ localStorage' = [localStorage EXCEPT ![m] = generateSessionId(nextId + 1)]
       /\ nextId' = nextId + 1
       /\ UNCHANGED <<loads, histCount>>

\* setSelectedMode(m) on the page: the hook re-renders with the new mode, which
\* re-creates sendMessage (deps [mode, getAccessToken]) around the sessionId of
\* that render, and then runs the effect.
SwitchMode(m) ==
  /\ page = CAG
  /\ m \in RAGModes \ {mode}
  /\ mode' = m
  /\ cbSessionId' = sessionId
  /\ ActivateEffect(m)
  /\ UNCHANGED <<tracker, page, turnState, isLoading, isStreaming, call>>

\* The AuthProvider re-renders (demo login, account change): getAccessToken is a
\* new function, so sendMessage is re-created around the current sessionId.
AuthRerender ==
  /\ cbSessionId # sessionId
  /\ cbSessionId' = sessionId
  /\ UNCHANGED <<tracker, page, mode, sessionId, localStorage, nextId, loads, histCount,
                 turnState, isLoading, isStreaming, call>>

\* Mutant of LoadSessionHistory: a failed load is reported as an assistant turn.
LoadSessionHistoryReportsFailure(sid, ok, h) ==
  /\ BagIn(sid, loads)
  /\ loads' = loads (-) SetToBag({sid})
  /\ histCount' = IF ok THEN [histCount EXCEPT !.restored = sid]
                      ELSE [histCount EXCEPT !.failed = @ + 1]
  /\ messages' = IF ok THEN [i \in 1..Len(h) |-> TurnOf(h[i].role, h[i].content, 0)]
                       ELSE Append(messages, TurnOf(Assistant, "Error: history", 0))
  /\ UNCHANGED <<tracker, page, mode, sessionId, cbSessionId, localStorage, nextId,
                 citations, queryRewrites, tokenUsage, processingMetadata,
                 isLoading, isStreaming, call>>

\* loadSessionHistory, from the response on: a response that is ok replaces the
\* turn list and restores the last assistant turn's citations, usage and
\* metadata; a response that is not ok, or a rejected request, changes nothing.
LoadSessionHistory(sid, ok, h) ==
  /\ BagIn(sid, loads)
  /\ loads' = loads (-) SetToBag({sid})
  /\ histCount' = IF ok THEN [histCount EXCEPT !.restored = sid]
                      ELSE [histCount EXCEPT !.failed = @ + 1]
  /\ IF ok
     THEN LET last == LastAssistant(h) IN
          /\ messages' = [i \in 1..Len(h) |-> TurnOf(h[i].role, h[i].content, 0)]
          /\ citations' = IF last # Absent /\ last[1].citations # Absent
                            THEN last[1].citations[1] ELSE citations
          /\ tokenUsage' = IF last # Absent /\ last[1].token_usage # Absent
                             THEN last[1].token_usage ELSE tokenUsage
          /\ processingMetadata' =
               IF last # Absent /\ last[1].processing_metadata # Absent
                 THEN last[1].processing_metadata ELSE processingMetadata
          /\ call' = NoteReset
          /\ UNCHANGED queryRewrites
     ELSE UNCHANGED <<turnState, call>>
  /\ UNCHANGED <<tracker, page, mode, sessionId, cbSessionId, localStorage, nextId,
                 isLoading, isStreaming>>

\* clearMessages, as operator on the primed turn state.
clearMessages ==
  /\ messages' = <<>>
  /\ citations' = <<>>
  /\ queryRewrites' = <<>>
  /\ tokenUsage' = Undefined
  /\ processingMetadata' = Undefined

\* The clear button of the page (the pages that show it pass clearMessages).
ClearMessages ==
  /\ page = QA
  /\ clearMessages
  /\ call' = NoteReset
  /\ UNCHANGED <<tracker, page, session, isLoading, isStreaming>>

\* Mutant of StartNewSession: the turn state is not cleared.
StartNewSessionKeepsTurns ==
  /\ page = CAG
  /\ nextId < MaxIds
  /\ sessionId' = generateSessionId(nextId + 1)
  /\ localStorage' = [localStorage EXCEPT ![mode] = generateSessionId(nextId + 1)]
  /\ nextId' = nextId + 1
  /\ UNCHANGED <<tracker, page, mode, cbSessionId, loads, histCount, turnState,
                 isLoading, isStreaming, call>>

\* Mutant of StartNewSession: the history of the new id is requested.
StartNewSessionLoadsHistory ==
  /\ page = CAG
  /\ nextId < MaxIds
  /\ histCount.started < MaxLoads
  /\ sessionId' = generateSessionId(nextId + 1)
  /\ localStorage' = [localStorage EXCEPT ![mode] = generateSessionId(nextId + 1)]
  /\ nextId' = nextId + 1
  /\ loads' = loads (+) SetToBag({generateSessionId(nextId + 1)})
  /\ histCount' = [histCount EXCEPT !.started = @ + 1]
  /\ clearMessages
  /\ call' = NoteReset
  /\ UNCHANGED <<tracker, page, mode, cbSessionId, isLoading, isStreaming>>

\* startNewSession, called by handleNewChat.
StartNewSession ==
  /\ page = CAG
  /\ nextId < MaxIds
  /\ sessionId' = generateSessionId(nextId + 1)
  /\ localStorage' = [localStorage EXCEPT ![mode] = generateSessionId(nextId + 1)]
  /\ nextId' = nextId + 1
  /\ clearMessages
  /\ call' = NoteReset
  /\ UNCHANGED <<tracker, page, mode, cbSessionId, loads, histCount, isLoading, isStreaming>>

\* ---------------------------------------------------------------- sendMessage
\* A thrown value: an Error with a message, or something that is no Error.
Thrown(msg) == [isError |-> TRUE, message |-> msg]

\* The content of the turn appended by the catch block.
CatchText(err) ==
  "Error: " \o (IF err.isError THEN err.message ELSE "Unknown error occurred")

\* Mutant of CatchTurn: the catch block only logs.
CatchTurnLogsOnly(msgs, err, c) == msgs

\* The catch block: setMessages(prev => [...prev, {role: 'assistant', ...}]).
CatchTurn(msgs, err, c) == Append(msgs, TurnOf(Assistant, CatchText(err), c))

\* Lines delivered so far over all channels.
RECURSIVE DeliveredUpTo(_)
DeliveredUpTo(n) == IF n = 0 THEN 0 ELSE call[n].nrecv + DeliveredUpTo(n - 1)
Delivered == DeliveredUpTo(MaxCalls)

\* The state the loop body reads and writes: the hook state and the call's
\* locals assistantMessage (am) and messageIndex (mi).
LoopState(c) ==
  [messages |-> messages, citations |-> citations, queryRewrites |-> queryRewrites,
   tokenUsage |-> tokenUsage, processingMetadata |-> processingMetadata,
   isStreaming |-> isStreaming,
   am |-> call[c].assistantMessage, mi |-> call[c].messageIndex,
   doneSeen |-> call[c].doneSeen, errSeen |-> call[c].errSeen,
   typed |-> call[c].typed]

\* Mutant of ApplyToken: every token pushes a turn of its own.
ApplyTokenPushes(L, ln, c) ==
  IF ~Truthy(ln.token) THEN L
  ELSE [L EXCEPT !.am = L.am \o ln.token[1], !.mi = Len(L.messages),
                 !.messages = Append(L.messages,
                                     TurnOf(Assistant, L.am \o ln.token[1], c))]

\* if (data.token): extend assistantMessage; the first token pushes the
\* assistant turn and records its index, a later one rewrites that index.
ApplyToken(L, ln, c) ==
  IF ~Truthy(ln.token) THEN L
  ELSE LET text == L.am \o ln.token[1]
           existing == IF L.mi + 1 <= Len(L.messages) THEN L.messages[L.mi + 1] ELSE Hole
           role == IF existing.role \in {User, Assistant} THEN existing.role ELSE Assistant
       IN IF L.mi = -1
            THEN [L EXCEPT !.am = text, !.mi = Len(L.messages),
                           !.messages = Append(L.messages, TurnOf(Assistant, text, c))]
            ELSE [L EXCEPT !.am = text,
                           !.messages = SetAt(L.messages, L.mi, TurnOf(role, text, c))]

\* Mutant of ApplyTyped: the prompt tokens of a token_usage frame are added to
\* the ones held.
ApplyTypedAccumulatesUsage(L, ln) ==
  [L EXCEPT
     !.citations = IF ln.type = "citations" /\ ln.citations # Absent
                     THEN ln.citations[1] ELSE @,
     !.queryRewrites = IF ln.type = "query_rewrites" /\ ln.rewrites # Absent
                         THEN ln.rewrites[1] ELSE @,
     !.tokenUsage = IF ln.type = "token_usage" /\ ln.usage # Absent
                      THEN (IF @ = Absent THEN ln.usage
                            ELSE Some([ln.usage[1] EXCEPT
                                         !.prompt_tokens = @ + L.tokenUsage[1].prompt_tokens]))
                      ELSE @,
     !.processingMetadata = IF ln.type = "metadata" /\ ln.processing # Absent
                              THEN ln.processing ELSE @,
     !.typed = IF \/ ln.type = "citations" /\ ln.citations # Absent
                  \/ ln.type = "query_rewrites" /\ ln.rewrites # Absent
                  \/ ln.type = "token_usage" /\ ln.usage # Absent
                  \/ ln.type = "metadata" /\ ln.processing # Absent
                 THEN @ \cup {ln.type} ELSE @]

\* Mutant of ApplyTyped: citations and rewrites are added to the earlier ones.
ApplyTypedMerges(L, ln) ==
  [L EXCEPT
     !.citations = IF ln.type = "citations" /\ ln.citations # Absent
                     THEN @ \o ln.citations[1] ELSE @,
     !.queryRewrites = IF ln.type = "query_rewrites" /\ ln.rewrites # Absent
                         THEN @ \o ln.rewrites[1] ELSE @,
     !.tokenUsage = IF ln.type = "token_usage" /\ ln.usage # Absent
                      THEN ln.usage ELSE @,
     !.processingMetadata = IF ln.type = "metadata" /\ ln.processing # Absent
                              THEN ln.processing ELSE @,
     !.typed = IF \/ ln.type = "citations" /\ ln.citations # Absent
                  \/ ln.type = "query_rewrites" /\ ln.rewrites # Absent
                  \/ ln.type = "token_usage" /\ ln.usage # Absent
                  \/ ln.type = "metadata" /\ ln.processing # Absent
                 THEN @ \cup {ln.type} ELSE @]

\* The four typed payloads: each one replaces its value.
ApplyTyped(L, ln) ==
  [L EXCEPT
     !.citations = IF ln.type = "citations" /\ ln.citations # Absent
                     THEN ln.citations[1] ELSE @,
     !.queryRewrites = IF ln.type = "query_rewrites" /\ ln.rewrites # Absent
                         THEN ln.rewrites[1] ELSE @,
     !.tokenUsage = IF ln.type = "token_usage" /\ ln.usage # Absent
                      THEN ln.usage ELSE @,
     !.processingMetadata = IF ln.type = "metadata" /\ ln.processing # Absent
                              THEN ln.processing ELSE @,
     !.typed = IF \/ ln.type = "citations" /\ ln.citations # Absent
                  \/ ln.type = "query_rewrites" /\ ln.rewrites # Absent
                  \/ ln.type = "token_usage" /\ ln.usage # Absent
                  \/ ln.type = "metadata" /\ ln.processing # Absent
                 THEN @ \cup {ln.type} ELSE @]

\* if (data.done) { setIsStreaming(false); break; }
ApplyDone(L, ln) ==
  IF ln.done THEN [L EXCEPT !.isStreaming = FALSE, !.doneSeen = TRUE] ELSE L

\* Mutant of ProcessLine: a line that is no JSON drops what was accumulated.
ProcessLineBadResets(L, ln, c) ==
  IF ~ln.data THEN L
  ELSE IF ~ln.json THEN [L EXCEPT !.am = ""]
  ELSE IF Truthy(ln.error) THEN [L EXCEPT !.errSeen = TRUE]
  ELSE ApplyDone(ApplyTyped(ApplyToken(L, ln, c), ln), ln)

\* One pass of the for loop.  A line without the 'data: ' prefix is ignored; a
\* JSON.parse failure and the Error thrown for data.error are both caught by
\* the try around the loop body, which logs a warning and goes on.
ProcessLine(L, ln, c) ==
  IF ~ln.data THEN L
  ELSE IF ~ln.json THEN L
  ELSE IF Truthy(ln.error) THEN [L EXCEPT !.errSeen = TRUE]
  ELSE ApplyDone(ApplyTyped(ApplyToken(L, ln, c), ln), ln)

\* The break of the for loop is reached when the line's done flag is handled.
Breaks(ln) == ln.data /\ ln.json /\ ~Truthy(ln.error) /\ ln.done

\* for (const line of lines) over one chunk.
RECURSIVE ProcessLines(_, _, _, _)
ProcessLines(L, ch, i, c) ==
  IF i > Len(ch) THEN L
  ELSE IF Breaks(ch[i]) THEN ProcessLine(L, ch[i], c)
  ELSE ProcessLines(ProcessLine(L, ch[i], c), ch, i + 1, c)

\* What a line is, for the history variables: a frame that carries a non-empty
\* token and nothing else, a frame that carries the done flag and nothing else.
IsTokenFrame(ln) == ln \in {TokenLine(t) : t \in {"a", "b"}}
IsDoneFrame(ln) == ln = DoneLine

RECURSIVE ShapeAfter(_, _, _)
ShapeAfter(sh, ch, i) ==
  IF i > Len(ch) THEN sh
  ELSE ShapeAfter(IF sh = "tokens" /\ IsTokenFrame(ch[i]) THEN "tokens"
                  ELSE IF sh = "tokens" /\ IsDoneFrame(ch[i]) THEN "tokensDone"
                  ELSE "other", ch, i + 1)

RECURSIVE SkipAfter(_, _, _)
SkipAfter(sk, ch, i) ==
  IF i > Len(ch) THEN sk
  ELSE SkipAfter(IF sk \in {"start", "token"} /\ IsTokenFrame(ch[i]) THEN "token"
                 ELSE IF sk = "token" /\ ch[i] = BadLine THEN "tokenBad"
                 ELSE IF sk = "tokenBad" /\ IsTokenFrame(ch[i]) THEN "tokenBadToken"
                 ELSE "other", ch, i + 1)

RECURSIVE TokensOf(_, _)
TokensOf(ch, i) ==
  IF i > Len(ch) THEN <<>>
  ELSE (IF ch[i].data /\ ch[i].json /\ ch[i].token # Absent
          THEN <<ch[i].token[1]>> ELSE <<>>) \o TokensOf(ch, i + 1)

\* Mutant of Finally: the loading flag is not cleared.
FinallyKeepsLoading ==
  /\ isLoading' = isLoading
  /\ isStreaming' = FALSE

\* finally { setIsLoading(false); setIsStreaming(false); }
Finally ==
  /\ isLoading' = FALSE
  /\ isStreaming' = FALSE

\* Mutant of ResetTurnState: the token usage of the previous turn is kept.
ResetTurnStateKeepsUsage ==
  /\ citations' = <<>>
  /\ queryRewrites' = <<>>
  /\ tokenUsage' = tokenUsage
  /\ processingMetadata' = Undefined

\* setCitations([]); setQueryRewrites([]); setTokenUsage(undefined);
\* setProcessingMetadata(undefined) at the start of sendMessage.
ResetTurnState ==
  /\ citations' = <<>>
  /\ queryRewrites' = <<>>
  /\ tokenUsage' = Undefined
  /\ processingMetadata' = Undefined

\* sendMessage up to its first await: the user turn, the flags and the reset
\* of the previous turn's citations, rewrites, usage and metadata.
sendMessage(c, q) ==
  /\ call[c].pc = "idle"
  /\ \A d \in Calls : d < c => call[d].pc # "idle"
  /\ messages' = Append(messages, TurnOf(User, q, c))
  /\ isLoading' = TRUE
  /\ isStreaming' = TRUE
  /\ ResetTurnState
  /\ call' = [call EXCEPT ![c] = [IdleCall EXCEPT !.pc = "auth", !.content = q,
                                                  !.closureMode = mode,
                                                  !.closureSid = cbSessionId]]
  /\ UNCHANGED <<tracker, page, session>>

Queries == {"q"}

\* ContextAwareGeneration.handleSubmit and handleFollowUpMessage.
CAGHandleSubmit(c, q) ==
  /\ page = CAG
  /\ q # "" /\ ~isLoading
  /\ sendMessage(c, q)

CAGHandleFollowUpMessage(c, q) ==
  /\ page = CAG
  /\ ~isLoading
  /\ sendMessage(c, q)

\* QAWithVerification.handleSubmit, reached from the form and from Enter.
QAHandleSubmit(c, q) ==
  /\ page = QA
  /\ q # ""
  /\ sendMessage(c, q)

\* getAccessToken has resolved: the request is sent with the mode and the
\* sessionId of the closure the call runs in.
Fetch(c) ==
  /\ call[c].pc = "auth"
  /\ call' = [call EXCEPT ![c].pc = "fetch",
                          ![c].request = Some([prompt |-> call[c].content,
                                                mode |-> call[c].closureMode,
                                                session_id |-> call[c].closureSid]),
                          ![c].activeSid = localStorage[mode]]
  /\ UNCHANGED <<tracker, page, session, turnState, isLoading, isStreaming>>

\* The response is ok and has a body: the reader is taken.
FetchOk(c) ==
  /\ call[c].pc = "fetch"
  /\ call' = [call EXCEPT ![c].pc = "reading"]
  /\ UNCHANGED <<tracker, page, session, turnState, isLoading, isStreaming>>

\* The response is ok without a body: the loop is skipped.
FetchNoBody(c) ==
  /\ call[c].pc = "fetch"
  /\ call' = [call EXCEPT ![c].pc = "returned", ![c].how = "nobody"]
  /\ Finally
  /\ UNCHANGED <<tracker, page, session, turnState>>

FetchErrors == {Thrown("HTTP error! status: 500"), Thrown("Failed to fetch")}

\* The request is rejected, or the response is not ok: catch and finally.
FetchFailed(c, err) ==
  /\ call[c].pc = "fetch"
  /\ messages' = CatchTurn(messages, err, c)
  /\ call' = [call EXCEPT ![c].pc = "returned", ![c].how = "openfail"]
  /\ Finally
  /\ UNCHANGED <<tracker, page, session, citations, queryRewrites, tokenUsage, processingMetadata>>

\* reader.read() resolved with a chunk: the for loop over its lines.
ReadChunk(c, ch) ==
  /\ call[c].pc = "reading"
  /\ Delivered + Len(ch) <= MaxFrames
  /\ LET L == ProcessLines(LoopState(c), ch, 1, c) IN
     /\ messages' = L.messages
     /\ citations' = L.citations
     /\ queryRewrites' = L.queryRewrites
     /\ tokenUsage' = L.tokenUsage
     /\ processingMetadata' = L.processingMetadata
     /\ isStreaming' = L.isStreaming
     /\ call' = [call EXCEPT ![c].assistantMessage = L.am, ![c].messageIndex = L.mi,
                             ![c].doneSeen = L.doneSeen, ![c].errSeen = L.errSeen,
                             ![c].typed = L.typed,
                             ![c].nrecv = @ + Len(ch),
                             ![c].toks = @ \o TokensOf(ch, 1),
                             ![c].shape = ShapeAfter(@, ch, 1),
                             ![c].skip = SkipAfter(@, ch, 1)]
  /\ UNCHANGED <<tracker, page, session, isLoading>>

\* reader.read() resolved with done, which it does once every byte of the body
\* was handed over: the while loop ends, then finally.
ReadEnd(c) ==
  /\ call[c].pc = "reading"
  /\ call[c].wire = <<>>
  /\ call' = [call EXCEPT ![c].pc = "returned", ![c].how = "eof"]
  /\ Finally
  /\ UNCHANGED <<tracker, page, session, turnState>>

\* reader.read() rejected (the connection broke): catch and finally.
ReadFailed(c) ==
  /\ call[c].pc = "reading"
  /\ messages' = CatchTurn(messages, Thrown("network error"), c)
  /\ call' = [call EXCEPT ![c].pc = "returned", ![c].how = "readfail"]
  /\ Finally
  /\ UNCHANGED <<tracker, page, session, citations, queryRewrites, tokenUsage, processingMetadata>>

\* ---------------------------------------------------------------- bytes
\* The text of the response body, as a sequence of pieces of text.  A frame
\* that carries the token p is the line  data: {"token":"p"}  and a newline.
NL == "\n"
Payloads == {"a", "b"}
EncodeFrame(p) == <<"dat", "a: ", "{\"token\":\"", p, "\"}", NL>>

\* line.startsWith('data: ')
StartsWithData(line) == Len(line) >= 2 /\ line[1] = "dat" /\ line[2] = "a: "

\* line.slice(6)
Slice6(line) == SubSeq(line, 3, Len(line))

\* JSON.parse(text) returns an object for a complete object text and throws for
\* any part of one.
Parses(text) ==
  /\ Len(text) = 3
  /\ text[1] = "{\"token\":\""
  /\ text[2] \in Payloads
  /\ text[3] = "\"}"

\* What the loop body makes of one line of text.
Decode(line) ==
  IF ~StartsWithData(line) THEN BlankLine
  ELSE IF ~Parses(Slice6(line)) THEN BadLine
  ELSE TokenLine(Slice6(line)[2])

\* chunk.split('\n'): the text between the newlines, the text after the last
\* newline included (empty when the chunk ends with a newline).
RECURSIVE Split(_)
Split(text) ==
  IF \A k \in DOMAIN text : text[k] # NL THEN <<text>>
  ELSE LET k == CHOOSE i \in DOMAIN text :
                  text[i] = NL /\ \A j \in 1..(i - 1) : text[j] # NL
       IN <<SubSeq(text, 1, k - 1)>> \o Split(SubSeq(text, k + 1, Len(text)))

\* The lines of one read chunk: new TextDecoder().decode(value).split('\n'),
\* each line as the loop body takes it.
LinesOf(value) == [i \in DOMAIN Split(value) |-> Decode(Split(value)[i])]

\* The backend writes one more token frame to the body of the response.
ServerSends(c, p) ==
  /\ call[c].pc = "reading"
  /\ Len(call[c].sent) < MaxSent
  /\ call' = [call EXCEPT ![c].wire = @ \o EncodeFrame(p),
                          ![c].sent = Append(@, p)]
  /\ UNCHANGED <<tracker, page, session, turnState, isLoading, isStreaming>>

\* reader.read() resolved with the next n pieces of the body, wherever the
\* transport cut it: the chunk is decoded and split on its own, and the for
\* loop runs over its lines.
ReadBytes(c, n) ==
  /\ call[c].pc = "reading"
  /\ n \in 1..Len(call[c].wire)
  /\ LET ch == LinesOf(SubSeq(call[c].wire, 1, n))
         L == ProcessLines(LoopState(c), ch, 1, c) IN
     /\ messages' = L.messages
     /\ citations' = L.citations
     /\ queryRewrites' = L.queryRewrites
     /\ tokenUsage' = L.tokenUsage
     /\ processingMetadata' = L.processingMetadata
     /\ isStreaming' = L.isStreaming
     /\ call' = [call EXCEPT ![c].assistantMessage = L.am, ![c].messageIndex = L.mi,
                             ![c].doneSeen = L.doneSeen, ![c].errSeen = L.errSeen,
                             ![c].typed = L.typed,
                             ![c].nrecv = @ + Len(ch),
                             ![c].toks = @ \o TokensOf(ch, 1),
                             ![c].shape = ShapeAfter(@, ch, 1),
                             ![c].skip = SkipAfter(@, ch, 1),
                             ![c].wire = SubSeq(@, n + 1, Len(@))]
  /\ UNCHANGED <<tracker, page, session, isLoading>>

\* ---------------------------------------------------------------- upload tracker
Uploads == 1..MaxUploads

\* The ids of the seven stages, in the order of initializeProcessingSteps.
StageIds == <<"validation", "extraction", "metadata", "assessment", "chunking",
              "embeddings", "indexing">>
NStages == Len(StageIds)

\* A ProcessingStep without its title and description, which never change.
\* progress and message are <<>> while the step has none.
StepOf(id, status, progress, message) ==
  [id |-> id, status |-> status, progress |-> progress, message |-> message]

\* initializeProcessingSteps()
initializeProcessingSteps ==
  [k \in 1..NStages |-> StepOf(StageIds[k], "pending", Absent, Absent)]

\* updateProcessingStep(stepId, status, progress, message), as the new list.
updateProcessingStepDropsMessage(steps, stepId, status, progress, message) ==
  [k \in DOMAIN steps |->
     IF steps[k].id = stepId
       THEN [steps[k] EXCEPT !.status = status, !.progress = progress]
       ELSE steps[k]]
updateProcessingStepResetsOthers(steps, stepId, status, progress, message) ==
  [k \in DOMAIN steps |->
     IF steps[k].id = stepId
       THEN [steps[k] EXCEPT !.status = status, !.progress = progress,
                             !.message = message]
       ELSE [steps[k] EXCEPT !.status = "pending"]]
updateProcessingStep(steps, stepId, status, progress, message) ==
  [k \in DOMAIN steps |->
     IF steps[k].id = stepId
       THEN [steps[k] EXCEPT !.status = status, !.progress = progress,
                             !.message = message]
       ELSE steps[k]]

\* const stepMapping
stepMapping ==
  [t \in {"VALIDATION", "EXTRACTION", "METADATA", "ASSESSMENT", "CHUNKING",
          "EMBEDDINGS", "INDEXING"} |->
     CASE t = "VALIDATION" -> "validation"
       [] t = "EXTRACTION" -> "extraction"
       [] t = "METADATA" -> "metadata"
       [] t = "ASSESSMENT" -> "assessment"
       [] t = "CHUNKING" -> "chunking"
       [] t = "EMBEDDINGS" -> "embeddings"
       [] t = "INDEXING" -> "indexing"]

\* Step tags a progress frame may carry: the canonical tags, one canonical tag
\* in another letter case and one tag that names no stage.
StepTags == DOMAIN stepMapping \cup {"Chunking", "OCR"}

\* String.prototype.toLowerCase on the step tags.
toLowerCase(t) ==
  IF t \in DOMAIN stepMapping THEN stepMapping[t]
  ELSE IF t = "Chunking" THEN "chunking"
  ELSE "ocr"

\* stepMapping[data.step] || data.step.toLowerCase()
StepIdOf(t) == IF t \in DOMAIN stepMapping THEN stepMapping[t] ELSE toLowerCase(t)

\* One message of the progress channel (event.data).  json: it parses as JSON.
\* The optional fields of the parsed object are <<>> when absent.
NoFrame == [json |-> FALSE, type |-> "", step |-> Absent, progress |-> Absent,
            message |-> Absent, status |-> "", result |-> Absent, error |-> Absent,
            current_message |-> Absent]
JsonFrame(t) == [NoFrame EXCEPT !.json = TRUE, !.type = t]
ConnectedFrame == JsonFrame("connected")
ProgressFrame(t) == [JsonFrame("progress") EXCEPT !.step = Some(t),
                                                  !.progress = Some(40),
                                                  !.message = Some("working")]
CompletedFrame(r) == [JsonFrame("status") EXCEPT !.status = "completed", !.result = r]
StatusErrorFrame == [JsonFrame("status") EXCEPT !.status = "error", !.error = Some("failed")]
StatusOtherFrame == [JsonFrame("status") EXCEPT !.status = "processing",
                                                !.current_message = Some("busy")]
TimeoutFrame == [JsonFrame("timeout") EXCEPT !.message = Some("stalled")]
ErrorFrame == [JsonFrame("error") EXCEPT !.message = Some("lost")]

\* A ProcessingResult, reduced to two of its fields.
Result1 == [chunks_created |-> 12, processing_time |-> 7]

ProgressFrames == {ProgressFrame(t) : t \in StepTags}
Frames ==
  ProgressFrames
    \cup {ConnectedFrame, CompletedFrame(Some(Result1)), CompletedFrame(Absent),
          StatusErrorFrame, StatusOtherFrame, TimeoutFrame, ErrorFrame, NoFrame,
          JsonFrame("heartbeat"),
          [ProgressFrame("VALIDATION") EXCEPT !.message = Absent],
          [JsonFrame("progress") EXCEPT !.message = Some("working")]}

\* `${x}` of an optional string field.
Interpolate(f) == IF f = Absent THEN "undefined" ELSE f[1]

\* An upload that was not started.  pc: idle, simple (awaiting the request of
\* handleSimpleFileUpload), posting (awaiting the upload request), tracking
\* (the EventSource and the timer exist), returned.  es: the readyState of the EventSource, or none.  timer:
\* none, armed, fired.  History variables: nev, the messages its channel
\* delivered; order, k when the progress frames so far named the stages 1..k in
\* canonical order (0: none yet, -1: another order or a tag that is no stage);
\* ended, the transition that ended the tracking; closes, the calls of
\* eventSource.close(); skipped, the messages whose handling threw.
IdleJob == [pc |-> "idle", file |-> "", es |-> "none", timer |-> "none",
            nev |-> 0, order |-> 0, ended |-> "", closes |-> 0, skipped |-> 0]

\* Messages delivered so far over all progress channels.
RECURSIVE EventsUpTo(_)
EventsUpTo(n) == IF n = 0 THEN 0 ELSE job[n].nev + EventsUpTo(n - 1)
Events == EventsUpTo(MaxUploads)

Files == {"a.pdf", "b.pdf"}

\* prevSteps.map(step => step.status === 'processing' ? {...step, status: 'error'} : step)
ProcessingToError(steps) ==
  [k \in DOMAIN steps |->
     IF steps[k].status = "processing" THEN [steps[k] EXCEPT !.status = "error"]
     ELSE steps[k]]

\* The same with message: 'Timeout'.
ProcessingToTimeoutKeepsMessage(steps) ==
  [k \in DOMAIN steps |->
     IF steps[k].status = "processing" THEN [steps[k] EXCEPT !.status = "error"]
     ELSE steps[k]]
ProcessingToTimeout(steps) ==
  [k \in DOMAIN steps |->
     IF steps[k].status = "processing"
       THEN [steps[k] EXCEPT !.status = "error", !.message = Some("Timeout")]
     ELSE steps[k]]

\* prevSteps.map(step => ({...step, status: 'completed'}))
AllCompleted(steps) == [k \in DOMAIN steps |-> [steps[k] EXCEPT !.status = "completed"]]

\* The branch of onmessage that handles the frame fr; "thrown" when JSON.parse
\* or data.step.toLowerCase() throws, "none" when no branch matches.
BranchOfThrownIsError(fr) ==
  IF ~fr.json THEN "error"
  ELSE IF fr.type = "connected" THEN "connected"
  ELSE IF fr.type = "progress"
    THEN (IF fr.step = Absent THEN "error" ELSE "progress")
  ELSE IF fr.type = "status"
    THEN (IF fr.status = "completed" THEN "completed"
          ELSE IF fr.status = "error" THEN "statusError"
          ELSE "statusOther")
  ELSE IF fr.type = "timeout" THEN "timeout"
  ELSE IF fr.type = "error" THEN "error"
  ELSE "none"
BranchOf(fr) ==
  IF ~fr.json THEN "thrown"
  ELSE IF fr.type = "connected" THEN "connected"
  ELSE IF fr.type = "progress"
    THEN (IF fr.step = Absent THEN "thrown" ELSE "progress")
  ELSE IF fr.type = "status"
    THEN (IF fr.status = "completed" THEN "completed"
          ELSE IF fr.status = "error" THEN "statusError"
          ELSE "statusOther")
  ELSE IF fr.type = "timeout" THEN "timeout"
  ELSE IF fr.type = "error" THEN "error"
  ELSE "none"

\* The branches that call eventSource.close().
ClosingBranches == {"completed", "statusError", "timeout", "error"}

\* The position of the stage id in the canonical order, 0 when it is no stage.
StageIndex(id) ==
  IF \E k \in 1..NStages : StageIds[k] = id
    THEN CHOOSE k \in 1..NStages : StageIds[k] = id
    ELSE 0

\* order after the frame fr: a progress frame keeps the canonical order when
\* it names the stage in progress again or the stage after it.
OrderAfter(order, fr) ==
  IF BranchOf(fr) # "progress" THEN order
  ELSE LET k == StageIndex(StepIdOf(fr.step[1])) IN
       IF order >= 0 /\ k >= 1 /\ k \in {order, order + 1} THEN k ELSE -1

\* handleFileUpload, up to the first await of the handler it calls.  The file
\* dialog is opened by the button, which is disabled while isUploading; the
\* change event fires when the chosen file differs from the input's value.
HandleFileUploadKeepsSteps(j, f) ==
  /\ job[j].pc = "idle"
  /\ \A i \in Uploads : i < j => job[i].pc # "idle"
  /\ ~isUploading
  /\ f # fileInput
  /\ fileInput' = f
  /\ isUploading' = TRUE
  /\ processingResult' = Absent
  /\ IF useProgressTracking
       THEN /\ uploadStatus' = ""
            /\ processingSteps' =
                 IF processingSteps = <<>> THEN initializeProcessingSteps
                 ELSE processingSteps
            /\ job' = [job EXCEPT ![j] = [IdleJob EXCEPT !.pc = "posting", !.file = f]]
       ELSE /\ uploadStatus' = "Uploading file..."
            /\ job' = [job EXCEPT ![j] = [IdleJob EXCEPT !.pc = "simple", !.file = f]]
            /\ UNCHANGED processingSteps
  /\ UNCHANGED <<chat, useProgressTracking>>
HandleFileUpload(j, f) ==
  /\ job[j].pc = "idle"
  /\ \A i \in Uploads : i < j => job[i].pc # "idle"
  /\ ~isUploading
  /\ f # fileInput
  /\ fileInput' = f
  /\ isUploading' = TRUE
  /\ processingResult' = Absent
  /\ IF useProgressTracking
       THEN /\ uploadStatus' = ""
            /\ processingSteps' = initializeProcessingSteps
            /\ job' = [job EXCEPT ![j] = [IdleJob EXCEPT !.pc = "posting", !.file = f]]
       ELSE /\ uploadStatus' = "Uploading file..."
            /\ job' = [job EXCEPT ![j] = [IdleJob EXCEPT !.pc = "simple", !.file = f]]
            /\ UNCHANGED processingSteps
  /\ UNCHANGED <<chat, useProgressTracking>>

\* handleSimpleFileUpload after its request: ok, the response was ok.
SimpleUploadDone(j, ok) ==
  /\ job[j].pc = "simple"
  /\ IF ok
       THEN /\ uploadStatus' = "Success: uploaded"
            /\ processingResult' = Some(Result1)
       ELSE /\ uploadStatus' = "Error: Upload failed"
            /\ UNCHANGED processingResult
  /\ isUploading' = FALSE
  /\ job' = [job EXCEPT ![j].pc = "returned", ![j].ended = "simple"]
  /\ UNCHANGED <<chat, useProgressTracking, processingSteps, fileInput>>

\* The checkbox "Enable real-time progress tracking".
ToggleProgressTracking ==
  /\ useProgressTracking' = ~useProgressTracking
  /\ UNCHANGED <<chat, isUploading, uploadStatus, processingSteps, processingResult,
                 fileInput, job>>

\* handleFileUploadWithProgress when the upload request is rejected or is
\* answered not ok: the catch block.
UploadRejected(j) ==
  /\ job[j].pc = "posting"
  /\ uploadStatus' = "Error: Upload failed"
  /\ isUploading' = FALSE
  /\ job' = [job EXCEPT ![j].pc = "returned", ![j].ended = "rejected"]
  /\ UNCHANGED <<chat, useProgressTracking, processingSteps, processingResult,
                 fileInput>>

\* handleFileUploadWithProgress when the upload request is answered ok:
\* new EventSource(...), the three handlers are set and the timer is armed.
UploadAcceptedNoTimer(j) ==
  /\ job[j].pc = "posting"
  /\ job' = [job EXCEPT ![j].pc = "tracking", ![j].es = "connecting"]
  /\ UNCHANGED <<chat, useProgressTracking, isUploading, uploadStatus,
                 processingSteps, processingResult, fileInput>>
UploadAccepted(j) ==
  /\ job[j].pc = "posting"
  /\ job' = [job EXCEPT ![j].pc = "tracking", ![j].es = "connecting",
                        ![j].timer = "armed"]
  /\ UNCHANGED <<chat, useProgressTracking, isUploading, uploadStatus,
                 processingSteps, processingResult, fileInput>>

\* eventSource.onopen
OnOpen(j) ==
  /\ job[j].es = "connecting"
  /\ uploadStatus' = "Connected to processing stream..."
  /\ job' = [job EXCEPT ![j].es = "open"]
  /\ UNCHANGED <<chat, useProgressTracking, isUploading, processingSteps,
                 processingResult, fileInput>>

\* `Processing completed in ${data.result?.processing_time || 0}s`
CompletedStatus(result) ==
  "Processing completed in "
    \o ToString(IF result = Absent THEN 0 ELSE result[1].processing_time) \o "s"

\* eventSource.onmessage for one message of the channel, its catch included.
OnMessageCompletesProcessing(j, fr) ==
  LET b == BranchOf(fr) IN
  /\ job[j].es = "open"
  /\ Events < MaxEvents
  /\ uploadStatus' =
       CASE b = "thrown" -> "Error parsing server response"
         [] b = "connected" -> "Connected - processing will begin shortly..."
         [] b = "progress" -> fr.step[1] \o ": " \o Interpolate(fr.message)
         [] b = "completed" -> CompletedStatus(fr.result)
         [] b = "statusError" -> "Error: " \o Interpolate(fr.error)
         [] b = "statusOther" ->
              IF fr.current_message # Absent
                THEN (IF fr.step = Absent THEN "Processing" ELSE fr.step[1])
                       \o ": " \o fr.current_message[1]
                ELSE uploadStatus
         [] b = "timeout" -> "Processing timeout: " \o Interpolate(fr.message)
         [] b = "error" -> "Stream error: " \o Interpolate(fr.message)
         [] OTHER -> uploadStatus
  /\ processingSteps' =
       CASE b = "progress" ->
              updateProcessingStep(processingSteps, StepIdOf(fr.step[1]), "processing",
                                   fr.progress, fr.message)
         [] b = "completed" ->
              [k \in DOMAIN processingSteps |->
                 IF processingSteps[k].status = "processing"
                   THEN [processingSteps[k] EXCEPT !.status = "completed"]
                   ELSE processingSteps[k]]
         [] b \in {"statusError", "error"} -> ProcessingToError(processingSteps)
         [] b = "timeout" -> ProcessingToTimeout(processingSteps)
         [] OTHER -> processingSteps
  /\ processingResult' = IF b = "completed" THEN fr.result ELSE processingResult
  /\ isUploading' = IF b \in ClosingBranches THEN FALSE ELSE isUploading
  /\ fileInput' = IF b \in ClosingBranches THEN "" ELSE fileInput
  /\ job' = [job EXCEPT ![j].nev = @ + 1,
                        ![j].order = OrderAfter(@, fr),
                        ![j].es = IF b \in ClosingBranches THEN "closed" ELSE @,
                        ![j].ended = IF b \in ClosingBranches THEN b ELSE @,
                        ![j].closes = IF b \in ClosingBranches THEN @ + 1 ELSE @,
                        ![j].skipped = IF b = "thrown" THEN @ + 1 ELSE @]
  /\ UNCHANGED <<chat, useProgressTracking>>
OnMessage(j, fr) ==
  LET b == BranchOf(fr) IN
  /\ job[j].es = "open"
  /\ Events < MaxEvents
  /\ uploadStatus' =
       CASE b = "thrown" -> "Error parsing server response"
         [] b = "connected" -> "Connected - processing will begin shortly..."
         [] b = "progress" -> fr.step[1] \o ": " \o Interpolate(fr.message)
         [] b = "completed" -> CompletedStatus(fr.result)
         [] b = "statusError" -> "Error: " \o Interpolate(fr.error)
         [] b = "statusOther" ->
              IF fr.current_message # Absent
                THEN (IF fr.step = Absent THEN "Processing" ELSE fr.step[1])
                       \o ": " \o fr.current_message[1]
                ELSE uploadStatus
         [] b = "timeout" -> "Processing timeout: " \o Interpolate(fr.message)
         [] b = "error" -> "Stream error: " \o Interpolate(fr.message)
         [] OTHER -> uploadStatus
  /\ processingSteps' =
       CASE b = "progress" ->
              updateProcessingStep(processingSteps, StepIdOf(fr.step[1]), "processing",
                                   fr.progress, fr.message)
         [] b = "completed" -> AllCompleted(processingSteps)
         [] b \in {"statusError", "error"} -> ProcessingToError(processingSteps)
         [] b = "timeout" -> ProcessingToTimeout(processingSteps)
         [] OTHER -> processingSteps
  /\ processingResult' = IF b = "completed" THEN fr.result ELSE processingResult
  /\ isUploading' = IF b \in ClosingBranches THEN FALSE ELSE isUploading
  /\ fileInput' = IF b \in ClosingBranches THEN "" ELSE fileInput
  /\ job' = [job EXCEPT ![j].nev = @ + 1,
                        ![j].order = OrderAfter(@, fr),
                        ![j].es = IF b \in ClosingBranches THEN "closed" ELSE @,
                        ![j].ended = IF b \in ClosingBranches THEN b ELSE @,
                        ![j].closes = IF b \in ClosingBranches THEN @ + 1 ELSE @,
                        ![j].skipped = IF b = "thrown" THEN @ + 1 ELSE @]
  /\ UNCHANGED <<chat, useProgressTracking>>

\* eventSource.onerror.  The browser sets readyState before it fires the
\* event: CONNECTING when it will reconnect, CLOSED when it gives up (fatal).
OnErrorRetryReleases(j, fatal) ==
  /\ job[j].es \in {"connecting", "open"}
  /\ IF ~fatal
       THEN /\ uploadStatus' = "Retrying connection to processing stream..."
            /\ isUploading' = FALSE
            /\ job' = [job EXCEPT ![j].es = "connecting"]
            /\ UNCHANGED fileInput
       ELSE /\ uploadStatus' = "Connection closed by server - check backend logs"
            /\ isUploading' = FALSE
            /\ fileInput' = ""
            /\ job' = [job EXCEPT ![j].es = "closed", ![j].ended = "connection",
                                  ![j].closes = @ + 1]
  /\ UNCHANGED <<chat, useProgressTracking, processingSteps, processingResult>>
OnErrorAlwaysFatal(j, fatal) ==
  /\ job[j].es \in {"connecting", "open"}
  /\ uploadStatus' = "Connection error during processing - check network/backend"
  /\ isUploading' = FALSE
  /\ fileInput' = ""
  /\ job' = [job EXCEPT ![j].es = "closed", ![j].ended = "connection",
                        ![j].closes = @ + 1]
  /\ UNCHANGED <<chat, useProgressTracking, processingSteps, processingResult>>
OnError(j, fatal) ==
  /\ job[j].es \in {"connecting", "open"}
  /\ IF ~fatal
       THEN /\ uploadStatus' = "Retrying connection to processing stream..."
            /\ job' = [job EXCEPT ![j].es = "connecting"]
            /\ UNCHANGED <<isUploading, fileInput>>
       ELSE /\ uploadStatus' = "Connection closed by server - check backend logs"
            /\ isUploading' = FALSE
            /\ fileInput' = ""
            /\ job' = [job EXCEPT ![j].es = "closed", ![j].ended = "connection",
                                  ![j].closes = @ + 1]
  /\ UNCHANGED <<chat, useProgressTracking, processingSteps, processingResult>>

\* The callback of setTimeout(..., 600000).
WatchdogTestsUploading(j) ==
  /\ job[j].timer = "armed"
  /\ IF isUploading
       THEN /\ isUploading' = FALSE
            /\ uploadStatus' = "Processing timeout - connection closed"
            /\ fileInput' = ""
            /\ job' = [job EXCEPT ![j].timer = "fired", ![j].es = "closed",
                                  ![j].ended = "watchdog", ![j].closes = @ + 1]
       ELSE /\ job' = [job EXCEPT ![j].timer = "fired"]
            /\ UNCHANGED <<isUploading, uploadStatus, fileInput>>
  /\ UNCHANGED <<chat, useProgressTracking, processingSteps, processingResult>>
WatchdogUnconditional(j) ==
  /\ job[j].timer = "armed"
  /\ isUploading' = FALSE
  /\ uploadStatus' = "Processing timeout - connection closed"
  /\ fileInput' = ""
  /\ job' = [job EXCEPT ![j].timer = "fired", ![j].es = "closed",
                        ![j].ended = "watchdog", ![j].closes = @ + 1]
  /\ UNCHANGED <<chat, useProgressTracking, processingSteps, processingResult>>
Watchdog(j) ==
  /\ job[j].timer = "armed"
  /\ IF job[j].es # "closed"
       THEN /\ isUploading' = FALSE
            /\ uploadStatus' = "Processing timeout - connection closed"
            /\ fileInput' = ""
            /\ job' = [job EXCEPT ![j].timer = "fired", ![j].es = "closed",
                                  ![j].ended = "watchdog", ![j].closes = @ + 1]
       ELSE /\ job' = [job EXCEPT ![j].timer = "fired"]
            /\ UNCHANGED <<isUploading, uploadStatus, fileInput>>
  /\ UNCHANGED <<chat, useProgressTracking, processingSteps, processingResult>>

\* ---------------------------------------------------------------- behaviour
InitialMode(p) == IF p = CAG THEN "fast-rag" ELSE QAMode

\* The page p is mounted in a browser whose storage holds ids for the modes in
\* stored: the first render created sendMessage around sessionId = '', then
\* the effect ran for the initial mode.
Mounted(p, stored) ==
  LET ls == [m \in Modes |-> IF m \in stored THEN StoredId(m) ELSE NoId] IN
  /\ page = p
  /\ mode = InitialMode(p)
  /\ IF mode \in stored
       THEN /\ sessionId = StoredId(mode)
            /\ localStorage = ls
            /\ loads = SetToBag({StoredId(mode)})
            /\ histCount = [started |-> 1, failed |-> 0, restored |-> NoId]
       ELSE /\ sessionId = generateSessionId(0)
            /\ localStorage = [ls EXCEPT ![mode] = generateSessionId(0)]
            /\ loads = EmptyBag
            /\ histCount = [started |-> 0, failed |-> 0, restored |-> NoId]
  /\ cbSessionId = NoId
  /\ nextId = 0
  /\ messages = <<>>
  /\ citations = <<>>
  /\ queryRewrites = <<>>
  /\ tokenUsage = Undefined
  /\ processingMetadata = Undefined
  /\ isLoading = FALSE
  /\ isStreaming = FALSE
  /\ call = [c \in Calls |-> IdleCall]
  /\ isUploading = FALSE
  /\ uploadStatus = ""
  /\ processingSteps = <<>>
  /\ processingResult = Absent
  /\ fileInput = ""
  /\ useProgressTracking = TRUE
  /\ job = [j \in Uploads |-> IdleJob]

\* A first visit of the page ContextAwareGeneration: nothing is stored yet.
Init == Mounted(CAG, {})

\* A first visit of either page.
InitPages == \E p \in Pages : Mounted(p, {})

\* Any visit.
InitSession ==
  \E p \in Pages :
    \E stored \in SUBSET (IF p = CAG THEN RAGModes ELSE {QAMode}) : Mounted(p, stored)

\* The callers of sendMessage on the two pages, for the calls in cs.
CAGCallers(cs) ==
  \/ \E c \in cs, q \in Queries : CAGHandleSubmit(c, q)
  \/ \E c \in cs, q \in Queries : CAGHandleFollowUpMessage(c, q)

QACallers(cs) == \E c \in cs, q \in Queries : QAHandleSubmit(c, q)

\* A call up to the response, and the end of its stream.
OpenClose(cs) ==
  \/ \E c \in cs : Fetch(c)
  \/ \E c \in cs : FetchOk(c)
  \/ \E c \in cs : FetchNoBody(c)
  \/ \E c \in cs, err \in FetchErrors : FetchFailed(c, err)
  \/ \E c \in cs : ReadEnd(c)
  \/ \E c \in cs : ReadFailed(c)

\* The chunks of a stream.
Stream(cs) == \E c \in cs, ch \in Chunks : ReadChunk(c, ch)

\* What else the user, the backend and the application may do to the hook.
Around ==
  \/ \E m \in RAGModes : SwitchMode(m)
  \/ AuthRerender
  \/ \E sid \in BagToSet(loads), h \in Histories : LoadSessionHistory(sid, TRUE, h)
  \/ \E sid \in BagToSet(loads) : LoadSessionHistory(sid, FALSE, <<>>)
  \/ ClearMessages
  \/ StartNewSession

\* Chat turns on the page ContextAwareGeneration, with nothing else touching
\* the hook.
Next == CAGCallers(Calls) \/ OpenClose(Calls) \/ Stream(Calls)

Spec == Init /\ [][Next]_vars

\* Chat turns on either page: QAWithVerification lets calls overlap.
NextPages == Next \/ QACallers(Calls)

SpecPages == InitPages /\ [][NextPages]_vars

\* The session of the hook on any visit, with one call whose stream carries
\* token frames and token_usage frames, one per chunk.
SessionChunks == {<<TokenLine("a")>>, <<UsageLine(Usage1)>>}

NextSession ==
  \/ Around
  \/ CAGCallers({1})
  \/ QACallers({1})
  \/ OpenClose({1})
  \/ \E ch \in SessionChunks : ReadChunk(1, ch)

SpecSession == InitSession /\ [][NextSession]_vars

\* One call on ContextAwareGeneration whose stream carries typed frames and
\* token frames, one per chunk.
FrameChunks == {<<ln>> : ln \in TypedFrames \cup {TokenLine("a")}}

NextFrames ==
  \/ CAGCallers({1})
  \/ OpenClose({1})
  \/ \E ch \in FrameChunks : ReadChunk(1, ch)

SpecFrames == Init /\ [][NextFrames]_vars

\* One call on ContextAwareGeneration whose response body carries token frames
\* and is handed over in chunks cut anywhere.
NextChunks ==
  \/ CAGCallers({1})
  \/ OpenClose({1})
  \/ \E p \in Payloads : ServerSends(1, p)
  \/ \E n \in 1..(MaxSent * Len(EncodeFrame("a"))) : ReadBytes(1, n)

SpecChunks == Init /\ [][NextChunks]_vars

\* The knowledge-base page: uploads, one after the other.
NextUpload ==
  \/ \E j \in Uploads, f \in Files : HandleFileUpload(j, f)
  \/ \E j \in Uploads, ok \in BOOLEAN : SimpleUploadDone(j, ok)
  \/ ToggleProgressTracking
  \/ \E j \in Uploads : UploadRejected(j) \/ UploadAccepted(j) \/ OnOpen(j) \/ Watchdog(j)
  \/ \E j \in Uploads, fr \in Frames : OnMessage(j, fr)
  \/ \E j \in Uploads, fatal \in BOOLEAN : OnError(j, fatal)

SpecUpload == Init /\ [][NextUpload]_vars

\* The same page when every upload request is answered or fails, and every
\* timer that was armed fires: fetch settles and setTimeout calls back.
SpecUploadLive ==
  /\ SpecUpload
  /\ \A j \in Uploads : WF_vars(UploadRejected(j) \/ UploadAccepted(j))
  /\ \A j \in Uploads : WF_vars(Watchdog(j))

\* ---------------------------------------------------------------- properties
\* The assistant turns of the turn list that call c wrote.
AssistantTurnsOf(c) ==
  {i \in DOMAIN messages : messages[i].by = c /\ messages[i].role = Assistant}

RECURSIVE Concat(_)
Concat(ts) == IF ts = <<>> THEN "" ELSE ts[1] \o Concat(Tail(ts))

\* The contents the catch block can produce.
ErrorTexts ==
  {CatchText(e) : e \in FetchErrors \cup {Thrown("network error"), Thrown("boom")}}

C2_ErrorAborts ==
  \A c \in Calls :
    call[c].errSeen =>
      /\ call[c].pc = "returned"
      /\ \E i \in AssistantTurnsOf(c) : messages[i].content = CatchText(Thrown("boom"))

\* C3: once a call has handled a frame with done:true, no line delivered to it
\* afterwards changes the turn list, the citations, the query rewrites, the
\* token usage or the processing metadata.
C3_NothingAfterDone ==
  [][\A c \in Calls :
       (call[c].doneSeen /\ call'[c].nrecv > call[c].nrecv) => UNCHANGED turnState]_vars

\* C4: a call whose channel was closed before any done flag or error was
\* handled has ended with an assistant turn that contains an error message.
C4_CloseBeforeDoneIsError ==
  \A c \in Calls :
    (call[c].pc = "returned" /\ call[c].how = "eof"
       /\ ~call[c].doneSeen /\ ~call[c].errSeen) =>
      \E i \in AssistantTurnsOf(c) : messages[i].content \in ErrorTexts

\* C5: when the channel cannot be opened (rejected request, response not ok)
\* the call appends one assistant turn whose content is the error message,
\* changes nothing else of the turn state, has processed no line, and returns
\* with isLoading false; it never processes a line later.
C5_OpenFailure ==
  /\ [][\A c \in Calls :
          (call[c].pc = "fetch" /\ call'[c].how = "openfail") =>
            /\ \E err \in FetchErrors :
                 messages' = Append(messages, TurnOf(Assistant, CatchText(err), c))
            /\ UNCHANGED <<citations, queryRewrites, tokenUsage, processingMetadata>>
            /\ call'[c].pc = "returned"
            /\ isLoading' = FALSE]_vars
  /\ [](\A c \in Calls :
          call[c].how = "openfail" =>
            /\ call[c].pc = "returned"
            /\ call[c].nrecv = 0
            /\ Cardinality(AssistantTurnsOf(c)) = 1
            /\ \A i \in AssistantTurnsOf(c) : messages[i].content \in ErrorTexts)

C5_Witness ==
  \E c \in Calls :
    /\ call[c].how = "openfail"
    /\ messages[Len(messages)] = TurnOf(Assistant, "Error: HTTP error! status: 500", c)
    /\ ~isLoading

\* C6: every call that has returned has added exactly one assistant turn.
C6_OneAssistantTurnPerCall ==
  \A c \in Calls : call[c].pc = "returned" => Cardinality(AssistantTurnsOf(c)) = 1

C8_StaleCleared ==
  \A c \in Calls :
    (InFlight(c) /\ call[c].nrecv = 0) =>
      /\ citations = <<>>
      /\ queryRewrites = <<>>
      /\ tokenUsage = Undefined
      /\ processingMetadata = Undefined

C8_Witness ==
  /\ call[1].pc = "returned"
  /\ call[1].doneSeen
  /\ {"citations", "token_usage"} \subseteq call[1].typed
  /\ InFlight(2)
  /\ call[2].nrecv = 0

\* C9: at most one call is in flight.
C9_OneTurnInFlight == Cardinality({c \in Calls : InFlight(c)}) <= 1

\* C10: the session_id of every request sent is the id persisted for the
\* active mode at the time the request is sent.
C10_RequestCarriesActiveSession ==
  \A c \in Calls :
    call[c].request # Absent => call[c].request[1].session_id = call[c].activeSid
\* The ids persisted for some mode.
PersistedIds == {localStorage[m] : m \in Modes}

\* C11: the id persisted for the active mode is the hook's sessionId in every
\* state; a step that activates a mode with a persisted id takes that id and
\* generates none, and a step that activates a mode without one takes an id
\* that was not in use before and persists it for that mode.
C11_SessionIdPersisted ==
  /\ [](sessionId # NoId /\ localStorage[mode] = sessionId)
  /\ [][mode' # mode =>
          IF localStorage[mode'] # NoId
            THEN /\ sessionId' = localStorage[mode']
                 /\ UNCHANGED <<localStorage, nextId>>
            ELSE /\ sessionId' \notin PersistedIds \cup {sessionId, NoId}
                 /\ localStorage' = [localStorage EXCEPT ![mode'] = sessionId']]_vars

C11_Witness ==
  /\ mode = "agentic-rag"
  /\ sessionId = NewId(1)
  /\ localStorage["agentic-rag"] = NewId(1)
  /\ localStorage["fast-rag"] = StoredId("fast-rag")

\* C12: a startNewSession step (the sessionId changes, the mode does not)
\* takes an id different from the previous one and from every persisted id,
\* persists it for the active mode and for no other, leaves the turn list, the
\* citations, the rewrites, the usage and the metadata empty, and starts
\* neither a history request nor a chat request.
C12_StartNewSession ==
  [][(mode' = mode /\ sessionId' # sessionId) =>
       /\ sessionId' \notin PersistedIds \cup {NoId}
       /\ localStorage' = [localStorage EXCEPT ![mode] = sessionId']
       /\ messages' = <<>>
       /\ citations' = <<>>
       /\ queryRewrites' = <<>>
       /\ tokenUsage' = Undefined
       /\ processingMetadata' = Undefined
       /\ UNCHANGED <<loads, histCount>>
       /\ \A c \in Calls : /\ call'[c].pc = call[c].pc
                            /\ call'[c].request = call[c].request]_vars

C12_Witness ==
  /\ mode = "fast-rag"
  /\ sessionId = NewId(1)
  /\ localStorage["fast-rag"] = NewId(1)
  /\ messages = <<>>
  /\ call[1].reset
  /\ histCount.started = 0

C14_LoadOncePerActivation ==
  [][/\ histCount'.started > histCount.started =>
          /\ mode' # mode
          /\ histCount'.started = histCount.started + 1
          /\ BagCardinality(loads') = BagCardinality(loads) + 1
     /\ BagCardinality(loads') > BagCardinality(loads) =>
          histCount'.started > histCount.started]_vars

C14_Witness ==
  /\ histCount.started = 2
  /\ nextId = 1
  /\ \E c \in Calls : Started(c)
\* C15: when the lines delivered to a call are token frames, then one line
\* that does not parse as JSON, then a token frame, the call is still reading
\* after that frame, no error was handled, and the turn list holds exactly one
\* assistant turn of the call, whose content is the concatenation of the
\* payloads of the token frames in arrival order.
C15_BadFrameSkipped ==
  [][\A c \in Calls :
       (call[c].skip = "tokenBad" /\ call'[c].skip = "tokenBadToken") =>
         /\ call'[c].pc = "reading"
         /\ ~call'[c].errSeen /\ ~call'[c].doneSeen
         /\ Len(call'[c].toks) >= 2
         /\ Cardinality(AssistantTurnsOf(c)') = 1
         /\ \A i \in AssistantTurnsOf(c)' :
              messages'[i].content = Concat(call'[c].toks)]_vars

C15_Witness ==
  \E c \in Calls :
    /\ call[c].skip = "tokenBadToken"
    /\ call[c].toks = <<"a", "b">>
    /\ call[c].pc = "reading"
    /\ \E i \in AssistantTurnsOf(c) : messages[i].content = "ab"
\* C16: the step in which a call processes a frame that carries a type and its
\* payload sets the value of that type to the payload, whatever the value was
\* before, and leaves the turn list and the three other values unchanged.
C16_TypedFrameReplaces ==
  [][\A c \in Calls : \A ln \in TypedFrames :
       ReadChunk(c, <<ln>>) =>
         /\ messages' = messages
         /\ citations' = IF ln.type = "citations" THEN ln.citations[1] ELSE citations
         /\ queryRewrites' = IF ln.type = "query_rewrites" THEN ln.rewrites[1]
                                                         ELSE queryRewrites
         /\ tokenUsage' = IF ln.type = "token_usage" THEN ln.usage ELSE tokenUsage
         /\ processingMetadata' = IF ln.type = "metadata" THEN ln.processing
                                                          ELSE processingMetadata]_vars

C16_Witness ==
  /\ call[1].nrecv = 3
  /\ call[1].toks = <<>>
  /\ call[1].typed = {"citations", "token_usage"}
  /\ citations = <<"c2", "c3">>
  /\ tokenUsage = Some(Usage1)

\* The upload j is the one started last: processingSteps is its stage list.
Current(j) == job[j].pc # "idle" /\ \A i \in Uploads : i > j => job[i].pc = "idle"

\* The indices of the stages whose status is s.
StagesWith(s) == {k \in DOMAIN processingSteps : processingSteps[k].status = s}

\* C17: while a tracked upload has started and no message of its progress
\* channel was processed yet, the stage list is the 7 canonical stages in
\* canonical order, each pending and without progress or message, whatever
\* the uploads before it left behind.
C17_StagesStartPending ==
  \A j \in Uploads :
    (Current(j) /\ job[j].pc \in {"posting", "tracking"} /\ job[j].nev = 0) =>
      /\ Len(processingSteps) = 7
      /\ \A k \in 1..7 :
           processingSteps[k] = [id |-> StageIds[k], status |-> "pending",
                                 progress |-> Absent, message |-> Absent]

C17_Witness ==
  /\ job[1].ended = "connection"
  /\ job[1].order = 2
  /\ job[2].pc = "tracking"
  /\ job[2].es = "open"
  /\ job[2].nev = 0
  /\ StagesWith("pending") = 1..7

\* C18: while the progress frames of the current upload named the stages in
\* canonical order and no error or timeout occurred, at most one stage is
\* processing and every stage before a processing stage is completed.
C18_OneStageProcessing ==
  \A j \in Uploads :
    (Current(j) /\ job[j].pc = "tracking" /\ job[j].order >= 0
       /\ job[j].ended \in {"", "completed"}) =>
      /\ Cardinality(StagesWith("processing")) <= 1
      /\ \A k \in StagesWith("processing") :
           \A i \in 1..(k - 1) : processingSteps[i].status = "completed"

\* C19: the step that processes a status:error frame, a timeout frame or an
\* error frame after progress frames for the stages 1..K in canonical order
\* leaves stage K with status error, every stage after K pending and every
\* stage before K completed.
C19_ErrorMarksStageK ==
  [][\A j \in Uploads : \A fr \in {StatusErrorFrame, TimeoutFrame, ErrorFrame} :
       (OnMessage(j, fr) /\ job[j].order >= 1) =>
         \A k \in 1..7 :
           processingSteps'[k].status =
             IF k < job[j].order THEN "completed"
             ELSE IF k = job[j].order THEN "error"
             ELSE "pending"]_vars

\* C20: the step that processes a status frame with status completed leaves
\* all 7 stages completed, the result of the frame (null when it has none) as
\* processingResult, the EventSource closed and isUploading false.
C20_CompletedIsAuthoritative ==
  [][\A j \in Uploads : \A fr \in Frames :
       (OnMessage(j, fr) /\ fr.type = "status" /\ fr.status = "completed") =>
         /\ Len(processingSteps') = 7
         /\ \A k \in 1..7 : /\ processingSteps'[k].id = StageIds[k]
                            /\ processingSteps'[k].status = "completed"
         /\ processingResult' = fr.result
         /\ job'[j].es = "closed"
         /\ ~isUploading']_vars

C20_Witness ==
  /\ job[1].ended = "completed"
  /\ job[1].order = 1
  /\ job[1].nev = 2
  /\ job[1].es = "closed"
  /\ StagesWith("completed") = 1..7
  /\ processingSteps[1].progress = Some(40)
  /\ processingResult = Some(Result1)
  /\ ~isUploading

\* C21: the step that processes a progress frame leaves a stage whose id is
\* the lower-cased step tag, with status processing and the progress and the
\* message of the frame, whether the tag is canonical, canonical in another
\* letter case or unrecognized.
C21_StepMappingTotal ==
  [][\A j \in Uploads : \A t \in StepTags :
       OnMessage(j, ProgressFrame(t)) =>
         \E k \in DOMAIN processingSteps' :
           /\ processingSteps'[k].id = toLowerCase(t)
           /\ processingSteps'[k].status = "processing"
           /\ processingSteps'[k].progress = ProgressFrame(t).progress
           /\ processingSteps'[k].message = ProgressFrame(t).message]_vars

\* C22: the step in which the timer fires while the EventSource is not closed
\* turns every processing stage into error, leaves the other stages as they
\* were, closes the EventSource and clears isUploading.
C22_WatchdogTimeoutTransition ==
  [][\A j \in Uploads :
       (Watchdog(j) /\ job[j].es # "closed") =>
         /\ \A k \in DOMAIN processingSteps :
              processingSteps'[k].status =
                IF processingSteps[k].status = "processing" THEN "error"
                ELSE processingSteps[k].status
         /\ job'[j].es = "closed"
         /\ ~isUploading']_vars

\* The transitions that end the tracking of an upload.
TerminalKinds ==
  {"completed", "statusError", "timeout", "error", "connection", "watchdog"}

\* C23: once the tracking of an upload has ended by a completed or error
\* status frame, a timeout frame, an error frame, a fatal transport error or
\* the timer, no later step of that upload (a handler of its EventSource or
\* its timer) changes the stage list, the result or isUploading.
C23_NothingAfterTerminal ==
  [][\A j \in Uploads :
       (job[j].ended \in TerminalKinds /\ job'[j] # job[j]) =>
         UNCHANGED <<processingSteps, processingResult, isUploading>>]_vars

C23_Witness ==
  /\ job[1].ended = "completed"
  /\ job[1].timer = "fired"
  /\ job[2].pc = "tracking"
  /\ job[2].es = "open"
  /\ job[2].order = 1
  /\ isUploading

\* C24: when the upload started last has left its tracking by any exit (the
\* upload request rejected, a completed or error status frame, a timeout
\* frame, an error frame, a fatal transport error, the timer), the file input
\* is empty, and eventSource.close() was called once if the EventSource
\* was created and never otherwise.
C24_CleanupOnEveryExit ==
  \A j \in Uploads :
    (Current(j) /\ job[j].ended \in TerminalKinds \cup {"rejected"}) =>
      /\ fileInput = ""
      /\ job[j].closes = IF job[j].es = "none" THEN 0 ELSE 1
      /\ job[j].es \in {"none", "closed"}

\* C25: the step of onerror while the EventSource is reconnecting leaves the
\* EventSource not closed, isUploading true and the stage list and the result
\* unchanged.
C25_ReconnectNotFatal ==
  [][\A j \in Uploads :
       OnError(j, FALSE) =>
         /\ job'[j].es = "connecting"
         /\ job'[j].closes = 0
         /\ isUploading /\ isUploading'
         /\ UNCHANGED <<processingSteps, processingResult>>]_vars

C25_Witness ==
  /\ uploadStatus = "Retrying connection to processing stream..."
  /\ job[1].es = "connecting"
  /\ job[1].order = 1
  /\ job[1].ended = ""
  /\ isUploading
  /\ processingSteps[1].status = "processing"

\* C26: the step of onerror when the EventSource has been closed by the
\* browser, no terminal frame having been handled, leaves isUploading false,
\* the EventSource closed, no stage processing and the stages that were
\* processing in error.
C26_ClosedChannelIsTerminalError ==
  [][\A j \in Uploads :
       OnError(j, TRUE) =>
         /\ ~isUploading'
         /\ job'[j].es = "closed"
         /\ \A k \in DOMAIN processingSteps :
              processingSteps'[k].status =
                IF processingSteps[k].status = "processing" THEN "error"
                ELSE processingSteps[k].status]_vars

\* C27: in no step other than the start of a new tracked upload does a stage
\* go from processing or completed back to pending, or from completed back to
\* processing.
C27_NoRegression ==
  [][(\A j \in Uploads : ~(job[j].pc = "idle" /\ job'[j].pc = "posting")) =>
       \A k \in DOMAIN processingSteps :
         /\ processingSteps[k].status \in {"processing", "completed"} =>
              processingSteps'[k].status # "pending"
         /\ processingSteps[k].status = "completed" =>
              processingSteps'[k].status # "processing"]_vars

C27_Witness ==
  /\ job[1].ended = "completed"
  /\ job[1].order = 2
  /\ job[1].nev = 3
  /\ job[1].timer = "fired"
  /\ StagesWith("completed") = 1..7

\* C28: every tracked upload that was started is followed by a state in which
\* isUploading is false, whatever frames the channel delivers and however
\* often the connection is retried, provided the upload request settles and
\* the timer fires.
C28_UploadEnds ==
  \A j \in Uploads : (job[j].pc = "posting" /\ isUploading) ~> ~isUploading

C28_Witness ==
  /\ job[1].ended = "watchdog"
  /\ job[1].nev = 0
  /\ job[1].timer = "fired"
  /\ uploadStatus = "Processing timeout - connection closed"
  /\ ~isUploading

\* C29: the step that processes a timeout frame turns every processing stage
\* into error with the message "Timeout" and leaves the other stages as they
\* were; the step that processes a status:error frame or an error frame turns
\* every processing stage into error, its message unchanged, and leaves the
\* other stages as they were.
C29_TimeoutLikeErrorPlusMessage ==
  [][\A j \in Uploads :
       /\ OnMessage(j, TimeoutFrame) =>
            \A k \in DOMAIN processingSteps :
              processingSteps'[k] =
                IF processingSteps[k].status = "processing"
                  THEN [id |-> processingSteps[k].id, status |-> "error",
                        progress |-> processingSteps[k].progress,
                        message |-> Some("Timeout")]
                  ELSE processingSteps[k]
       /\ \A fr \in {StatusErrorFrame, ErrorFrame} :
            OnMessage(j, fr) =>
              \A k \in DOMAIN processingSteps :
                processingSteps'[k] =
                  IF processingSteps[k].status = "processing"
                    THEN [id |-> processingSteps[k].id, status |-> "error",
                          progress |-> processingSteps[k].progress,
                          message |-> processingSteps[k].message]
                    ELSE processingSteps[k]]_vars

C29_Witness ==
  /\ job[1].ended = "timeout"
  /\ job[1].order = 1
  /\ processingSteps[1] = [id |-> "validation", status |-> "error",
                           progress |-> Some(40), message |-> Some("Timeout")]
  /\ StagesWith("pending") = 2..7

\* A frame that is no JSON, or a progress frame without one of its fields.
Malformed(fr) ==
  \/ ~fr.json
  \/ /\ fr.type = "progress"
     /\ (fr.step = Absent \/ fr.progress = Absent \/ fr.message = Absent)

\* A frame that is no JSON, or a progress frame without step tag.
Undecodable(fr) == ~fr.json \/ (fr.type = "progress" /\ fr.step = Absent)

\* C30, as stated: the step that processes a frame that is no JSON or lacks a
\* field of its type leaves the stage list and the result unchanged, the
\* EventSource open and isUploading true.
C30_MalformedSkipped ==
  [][\A j \in Uploads : \A fr \in Frames :
       (OnMessage(j, fr) /\ Malformed(fr)) =>
         /\ UNCHANGED <<processingSteps, processingResult>>
         /\ job'[j].es = "open"
         /\ isUploading']_vars

\* C30, amended: the step that processes a frame that is no JSON, or a
\* progress frame without step tag, leaves the stage list and the result
\* unchanged, the EventSource open and isUploading true; and the step that
\* processes a progress frame with a canonical tag after such frames sets the
\* stage of the tag to processing with the progress and message of the frame.
C30_UndecodableSkipped ==
  [][\A j \in Uploads :
       /\ \A fr \in Frames :
            (OnMessage(j, fr) /\ Undecodable(fr)) =>
              /\ UNCHANGED <<processingSteps, processingResult>>
              /\ job'[j].es = "open"
              /\ isUploading'
       /\ \A t \in DOMAIN stepMapping :
            (OnMessage(j, ProgressFrame(t)) /\ job[j].skipped > 0) =>
              /\ processingSteps'[StageIndex(stepMapping[t])] =
                   [id |-> stepMapping[t], status |-> "processing",
                    progress |-> ProgressFrame(t).progress,
                    message |-> ProgressFrame(t).message]
              /\ job'[j].es = "open"
              /\ isUploading']_vars

C30_Witness ==
  /\ job[1].skipped = 1
  /\ job[1].nev = 2
  /\ job[1].order = 1
  /\ job[1].es = "open"
  /\ isUploading
  /\ processingSteps[1].status = "processing"
  /\ uploadStatus = "VALIDATION: working"

\* The uploads whose EventSource exists and is not closed.
LiveChannels == {j \in Uploads : job[j].es \in {"connecting", "open"}}

\* C31: whenever isUploading is false no EventSource of any upload is
\* connecting or open, and at any time at most one is.
C31_OneLiveChannel ==
  /\ ~isUploading => LiveChannels = {}
  /\ Cardinality(LiveChannels) <= 1

C31_Witness ==
  /\ job[1].es = "closed"
  /\ job[1].ended = "statusError"
  /\ job[2].es = "open"
  /\ job[2].nev = 1
  /\ LiveChannels = {2}
  /\ isUploading

\* C33: the step that processes a progress frame whose tag names a canonical
\* stage leaves that stage processing with the progress and the message of the
\* frame, and leaves the six other stages, the result and isUploading
\* unchanged.
C33_ProgressTouchesOneStage ==
  [][\A j \in Uploads : \A t \in StepTags :
       (OnMessage(j, ProgressFrame(t)) /\ StageIndex(toLowerCase(t)) >= 1) =>
         LET s == StageIndex(toLowerCase(t)) IN
         /\ Len(processingSteps') = 7
         /\ processingSteps'[s] = [id |-> StageIds[s], status |-> "processing",
                                   progress |-> ProgressFrame(t).progress,
                                   message |-> ProgressFrame(t).message]
         /\ \A k \in (1..7) \ {s} : processingSteps'[k] = processingSteps[k]
         /\ UNCHANGED <<processingResult, isUploading>>]_vars

C33_Witness ==
  /\ job[1].nev = 1
  /\ job[1].order = -1
  /\ processingSteps[5] = [id |-> "chunking", status |-> "processing",
                           progress |-> Some(40), message |-> Some("working")]
  /\ StagesWith("pending") = (1..7) \ {5}
  /\ uploadStatus = "Chunking: working"
  /\ isUploading

\* C39: the step in which the timer of an upload fires after that upload's
\* tracking has ended changes neither isUploading, the status line, the file
\* input nor the record of any other upload.
C39_WatchdogOwnChannelOnly ==
  [][\A j \in Uploads :
       (Watchdog(j) /\ job[j].ended \in TerminalKinds) =>
         /\ UNCHANGED <<isUploading, uploadStatus, fileInput>>
         /\ \A i \in Uploads \ {j} : job'[i] = job[i]
         /\ job'[j].es = job[j].es]_vars

C39_Witness ==
  /\ job[1].ended = "connection"
  /\ job[1].timer = "fired"
  /\ job[2].es = "connecting"
  /\ job[2].timer = "armed"
  /\ uploadStatus = "Retrying connection to processing stream..."
  /\ fileInput = "b.pdf"
  /\ isUploading

C34_TokenWritesOwnTurn ==
  [][\A c \in Calls :
       ReadChunk(c, <<TokenLine("a")>>) =>
         /\ Len(messages') >= Len(messages)
         /\ \A i \in 1..Len(messages) :
              messages'[i] # messages[i] =>
                messages[i].by = c /\ messages[i].role = Assistant
         /\ \A i \in (Len(messages) + 1)..Len(messages') :
              \/ messages'[i] = Hole
              \/ messages'[i].by = c /\ messages'[i].role = Assistant]_vars

\* C35: every position of the turn list holds a turn with a role and a
\* content, in every reachable state.
C35_TurnListDense ==
  \A i \in DOMAIN messages : messages[i].role \in {User, Assistant}

\* C37: the step in which a history load completes while a sendMessage call is
\* in flight leaves the user turn of that call in the list and leaves
\* citations, token usage and processing metadata as they are.
C37_HistoryLoadKeepsCall ==
  [][\A c \in Calls :
       (InFlight(c) /\ \E sid \in BagToSet(loads), h \in Histories :
                         LoadSessionHistory(sid, TRUE, h)) =>
         /\ \E i \in DOMAIN messages' : messages'[i] = TurnOf(User, call[c].content, c)
         /\ UNCHANGED <<citations, tokenUsage, processingMetadata>>]_vars

\* The mode whose session a turn of the list belongs to: the mode of the call
\* that wrote it, or the mode whose stored id the restored history was of.
ModesOfTurn(t) ==
  IF t.by \in Calls THEN {call[t.by].closureMode}
  ELSE {m \in Modes : StoredId(m) = histCount.restored}

\* C38: once no history request is pending, every turn of the list belongs to
\* the session of the current mode; after a switch of the mode the turns of the
\* previous mode's session are no longer in the list.
C38_TurnsOfCurrentSession ==
  loads = EmptyBag =>
    \A i \in DOMAIN messages :
      messages[i] # Hole => ModesOfTurn(messages[i]) = {mode}

\* C36: when a call has returned at the end of the body, the list holds an
\* assistant turn of that call whose content is the concatenation of the
\* payloads of all token frames the body carried, however the body was cut
\* into read chunks.
C36_ContentIndependentOfChunks ==
  \A c \in Calls :
    (call[c].pc = "returned" /\ call[c].how = "eof" /\ call[c].sent # <<>>) =>
      \E i \in DOMAIN messages :
        messages[i] = TurnOf(Assistant, Concat(call[c].sent), c)
====
